---- MODULE Spec2Model ----
\* Model of update.py: the script that copies a subset of the taskflow modules
\* into a consuming project and rewrites their imports.
\*
\* Text is modelled as a sequence of tokens: a token is a whitespace character,
\* a punctuation character, a keyword or a name.  A dotted module name such as
\* utils.misc is <<"utils", ".", "misc">>, a path such as taskflow/utils/misc.py
\* is <<"taskflow", "/", "utils", "/", "misc">> (only .py files are modelled, the
\* extension is left out).  Where the code works on characters (startswith,
\* find, sorted) the tokens are spelled out by Chars.
EXTENDS Integers, Sequences, FiniteSets, TLC

\* ------------------------------------------------------------------ bounds
MaxPrimitives == 2
MaxRuns == 2
MaxComment == 2
MaxSegments == 2

\* --------------------------------------------------------------- constants
BASE_MOD == <<"taskflow">>

ALLOWED_PRIMITIVES ==
  {"decorators", "engines", "exceptions", "flow", "persistence", "storage", "task"}

MACHINE_GENERATED ==
  << <<"#", " ", "DO NOT EDIT THIS FILE BY HAND -- YOUR CHANGES WILL BE OVERWRITTEN">>,
     <<>> >>

\* ------------------------------------------------ characters of the tokens
\* the spelling of a name token; every other token is one character
Chars(t) ==
  CASE
       t = "task" -> <<"t", "a", "s", "k">>
    [] t = "tas" -> <<"t", "a", "s">>
    [] t = "utils" -> <<"u", "t", "i", "l", "s">>
    [] t = "misc" -> <<"m", "i", "s", "c">>
    [] t = "openstack" -> <<"o", "p", "e", "n", "s", "t", "a", "c", "k">>
    [] t = "common" -> <<"c", "o", "m", "m", "o", "n">>
    [] t = "compat" -> <<"c", "o", "m", "p", "a", "t">>
    [] t = "uuidutils" -> <<"u", "u", "i", "d", "u", "t", "i", "l", "s">>
    [] t = "import" -> <<"i", "m", "p", "o", "r", "t">>
    [] t = "importutils" -> <<"i", "m", "p", "o", "r", "t", "u", "t", "i", "l", "s">>
    [] t = "__init__" -> <<"_", "_", "i", "n", "i", "t", "_", "_">>
    [] t = "taskflow" -> <<"t", "a", "s", "k", "f", "l", "o", "w">>
    [] t = "engines" -> <<"e", "n", "g", "i", "n", "e", "s">>
    [] t = "engine" -> <<"e", "n", "g", "i", "n", "e">>
    [] t = "helpers" -> <<"h", "e", "l", "p", "e", "r", "s">>
    [] t = "base" -> <<"b", "a", "s", "e">>
    [] t = "persistence" -> <<"p", "e", "r", "s", "i", "s", "t", "e", "n", "c", "e">>
    [] t = "backends" -> <<"b", "a", "c", "k", "e", "n", "d", "s">>
    [] t = "logbook" -> <<"l", "o", "g", "b", "o", "o", "k">>
    [] t = "patterns" -> <<"p", "a", "t", "t", "e", "r", "n", "s">>
    [] t = "action" -> <<"a", "c", "t", "i", "o", "n">>
    [] t = "linear" -> <<"l", "i", "n", "e", "a", "r">>
    [] t = "memory" -> <<"m", "e", "m", "o", "r", "y">>
    [] t = "storage" -> <<"s", "t", "o", "r", "a", "g", "e">>
    [] t = "nothere" -> <<"n", "o", "t", "h", "e", "r", "e">>
    [] t = "myproj" -> <<"m", "y", "p", "r", "o", "j">>
    [] t = "old" -> <<"o", "l", "d">>
    [] OTHER -> <<t>>

RECURSIVE Spell(_)
Spell(s) == IF s = <<>> THEN <<>> ELSE Chars(Head(s)) \o Spell(Tail(s))

IsPrefixSeq(p, t) == Len(p) <= Len(t) /\ SubSeq(t, 1, Len(p)) = p

\* str.startswith
StartsWith(text, prefix) == IsPrefixSeq(Spell(prefix), Spell(text))

\* ----------------------------------------------------------- text helpers
Range(s) == {s[i] : i \in DOMAIN s}

IsWs(t) == t = " "

RECURSIVE LStrip(_)
LStrip(s) == IF s # <<>> /\ IsWs(Head(s)) THEN LStrip(Tail(s)) ELSE s

RECURSIVE RStrip(_)
RStrip(s) ==
  IF s # <<>> /\ IsWs(s[Len(s)]) THEN RStrip(SubSeq(s, 1, Len(s) - 1)) ELSE s

\* str.strip()
Strip(s) == RStrip(LStrip(s))

\* 1-based position of the first token t in s, 0 when there is none
\* (str.find(t) + 1)
Find(s, t) ==
  IF \E i \in DOMAIN s : s[i] = t
  THEN CHOOSE i \in DOMAIN s : s[i] = t /\ \A j \in 1..(i - 1) : s[j] # t
  ELSE 0

\* str.find("import") + 1: the first token the characters "import" occur in
\* (the names of the model have them at their start only)
FindImport(s) ==
  IF \E i \in DOMAIN s : IsPrefixSeq(Chars("import"), Chars(s[i]))
  THEN CHOOSE i \in DOMAIN s :
         /\ IsPrefixSeq(Chars("import"), Chars(s[i]))
         /\ \A j \in 1..(i - 1) : ~IsPrefixSeq(Chars("import"), Chars(s[j]))
  ELSE 0

From(s, i) == SubSeq(s, i, Len(s))

\* str.split(sep): the pieces between the separator tokens
RECURSIVE Split(_, _)
SplitAt(s, sep, k) ==
  IF k = 0 THEN <<s>> ELSE <<SubSeq(s, 1, k - 1)>> \o Split(From(s, k + 1), sep)

Split(s, sep) == SplitAt(s, sep, Find(s, sep))

\* sep.join(pieces)
RECURSIVE Join(_, _)
Join(pieces, sep) ==
  IF pieces = <<>> THEN <<>>
  ELSE IF Len(pieces) = 1 THEN pieces[1]
  ELSE pieces[1] \o <<sep>> \o Join(Tail(pieces), sep)

\* [p for p in pieces if p]
RECURSIVE DropEmpty(_)
DropEmpty(s) ==
  IF s = <<>> THEN <<>>
  ELSE IF Head(s) # <<>> THEN <<Head(s)>> \o DropEmpty(Tail(s))
  ELSE DropEmpty(Tail(s))

RECURSIVE StripAll(_)
StripAll(pieces) ==
  IF pieces = <<>> THEN <<>> ELSE <<Strip(Head(pieces))>> \o StripAll(Tail(pieces))

\* _join_mod(*pieces): ".".join([str(p) for p in pieces if p])
_join_mod(pieces) == Join(DropEmpty(pieces), ".")

\* _split_mod(text): the stripped, non-empty pieces of text.split('.')
_split_mod(text) == DropEmpty(StripAll(Split(text, ".")))

\* _mod_to_path(mod): os.path.join(*mod.split('.'))
_mod_to_path(mod) == Join(DropEmpty(Split(mod, ".")), "/")

\* -------------------------------------------------- _parse_import_line
NoMatch == [kind |-> "none"]
Blowup == [kind |-> "error"]

NoGroup == [ok |-> FALSE]
Group(g) == [ok |-> TRUE, g |-> g]

\* IMPORT_FROM = ^\s*from\s+taskflow\s*(.*)$ : group(1), if it matches
ImportFromMatch(line) ==
  LET a == LStrip(line)
  IN IF a = <<>> \/ Head(a) # "from" THEN NoGroup
     ELSE LET b == Tail(a)
              c == LStrip(b)
          IN IF b = <<>> \/ ~IsWs(Head(b)) \/ c = <<>> \/ Head(c) # BASE_MOD[1]
             THEN NoGroup
             ELSE Group(LStrip(Tail(c)))

\* re.match(r"\s*import\s+(.*)$", rest): group(1), if it matches
ImportMatch(rest) ==
  LET a == LStrip(rest)
  IN IF a = <<>> \/ Head(a) # "import" THEN NoGroup
     ELSE LET b == Tail(a)
          IN IF b = <<>> \/ ~IsWs(Head(b)) THEN NoGroup ELSE Group(LStrip(b))

\* whether \s+as\s+ matches at position i of s with "as" at position j
AsAt(s, i, j) ==
  /\ i \in DOMAIN s
  /\ j \in (i + 1)..(Len(s) - 1)
  /\ \A k \in i..(j - 1) : IsWs(s[k])
  /\ s[j] = "as"
  /\ IsWs(s[j + 1])

\* re.match(r"(.*?)\s+as\s+(.*)$", importing): <<group(1), group(2)>>, if it
\* matches; (.*?) takes the least, the \s+ after "as" the most
AsMatch(importing) ==
  LET hits == {p \in (DOMAIN importing) \X (DOMAIN importing) : AsAt(importing, p[1], p[2])}
  IN IF hits = {} THEN NoGroup
     ELSE LET p == CHOOSE p \in hits : \A q \in hits : p[1] <= q[1]
          IN Group(<<SubSeq(importing, 1, p[1] - 1), LStrip(From(importing, p[2] + 1))>>)

\* lines 425-434, once the "import ..." part matched
ParseAlias(comment, prefix, importing, m) ==
  IF ~m.ok
  THEN [kind |-> "ok", comment |-> comment, prefix |-> prefix,
        postfix |-> importing, alias |-> <<>>]
  ELSE [kind |-> "ok", comment |-> comment, prefix |-> prefix,
        postfix |-> Strip(m.g[1]), alias |-> Strip(m.g[2])]

\* lines 419-426
ParseMatched(comment, prefix, g) ==
  IF ~g.ok THEN Blowup
  ELSE ParseAlias(comment, prefix, Strip(g.g), AsMatch(Strip(g.g)))

ParseImporting(comment, prefix, rest) == ParseMatched(comment, prefix, ImportMatch(rest))

\* lines 408-416; k is import_index + 1
ParseAtImport(comment, rest, k) ==
  IF k = 0 THEN Blowup
  \* before = rest[0:import_index - 1][1:]; rest = rest[import_index:]
  ELSE ParseImporting(comment, From(SubSeq(rest, 1, k - 2), 2), From(rest, k))

ParsePrefix(comment, rest) ==
  IF rest # <<>> /\ Head(rest) = "."
  THEN ParseAtImport(comment, rest, FindImport(rest))
  ELSE ParseImporting(comment, <<>>, rest)

\* lines 393-402; h is the place of the first "#" of group(1)
ParseGroup(g, h) ==
  IF (IF h = 0 THEN g ELSE SubSeq(g, 1, h - 1)) = <<>> THEN Blowup
  ELSE ParsePrefix(IF h = 0 THEN <<>> ELSE From(g, h + 1),
                   IF h = 0 THEN g ELSE SubSeq(g, 1, h - 1))

ParseFrom(m) == IF ~m.ok THEN NoMatch ELSE ParseGroup(m.g, Find(m.g, "#"))

_parse_import_line(line) == ParseFrom(ImportFromMatch(line))

\* -------------------------------------------------------- _reform_import
_reform_import(mod, postfix, alias, comment) ==
  (IF postfix = <<>> THEN <<"import", " ">> \o mod
   ELSE <<"from", " ">> \o mod \o <<" ", "import", " ">> \o postfix)
  \o (IF alias # <<>> THEN <<" ", "as", " ">> \o alias ELSE <<>>)
  \o (IF comment # <<>> THEN <<" ", " ", "#">> \o comment ELSE <<>>)

\* _copy_file._form_mod; common_already is the set of flagged module names
_form_mod(prefix, postfix, base, common_already) ==
  IF _join_mod(<<prefix, postfix>>) \notin common_already
  THEN _join_mod(<<base>> \o <<BASE_MOD, prefix>>)
  ELSE _join_mod(<<base, <<"openstack">>, <<"common">> >>
                 \o From(_split_mod(prefix), 3))

\* lines 314-323 for one line, segments being what _parse_import_line returned
RewriteParsed(line, segments, base, common_already) ==
  IF segments.kind = "none" THEN [kind |-> "ok", line |-> line]
  ELSE IF segments.kind = "error" THEN [kind |-> "error"]
  ELSE [kind |-> "ok",
        line |-> _reform_import(
                   _form_mod(segments.prefix, segments.postfix, base, common_already),
                   segments.postfix, segments.alias, segments.comment)]

\* one iteration of the loop of _copy_file._import_replace
RewriteLine(line, base, common_already) ==
  RewriteParsed(line, _parse_import_line(line), base, common_already)

\* ------------------------------------------------------- order and search
\* the characters the names are written in, in ASCII order
Alphabet == <<".", "/", "_", "a", "b", "c", "d", "e", "f", "g", "h", "i", "j", "k", "l", "m", "n", "o", "p", "q", "r", "s", "t", "u", "v", "w", "x", "y", "z">>

Ord(c) == Find(Alphabet, c)

\* str.__lt__ : lexicographic on the characters
RECURSIVE CharsLess(_, _)
CharsLess(a, b) ==
  IF b = <<>> THEN FALSE
  ELSE IF a = <<>> THEN TRUE
  ELSE IF Head(a) = Head(b) THEN CharsLess(Tail(a), Tail(b))
  ELSE Ord(Head(a)) < Ord(Head(b))

StrLess(a, b) == CharsLess(Spell(a), Spell(b))

RECURSIVE Insert(_, _)
Insert(x, sortedSeq) ==
  IF sortedSeq = <<>> THEN <<x>>
  ELSE IF StrLess(x, Head(sortedSeq)) THEN <<x>> \o sortedSeq
  ELSE <<Head(sortedSeq)>> \o Insert(x, Tail(sortedSeq))

\* sorted(list)
RECURSIVE Sorted(_)
SortedAsGiven(s) == s

Sorted(s) == IF s = <<>> THEN <<>> ELSE Insert(Head(s), Sorted(Tail(s)))

RECURSIVE SetToSeq(_)
SetToSeqFrom(S, x) == <<x>> \o SetToSeq(S \ {x})

SetToSeq(S) == IF S = {} THEN <<>> ELSE SetToSeqFrom(S, CHOOSE x \in S : TRUE)

RECURSIVE Reverse(_)
Reverse(s) == IF s = <<>> THEN <<>> ELSE Reverse(Tail(s)) \o <<Head(s)>>

Ordered(fwd, rev) == IF rev THEN Reverse(fwd) ELSE fwd

\* dict.keys(): the order of the keys of a dict is not fixed by the language;
\* the model takes one of two orders
Keys(d, rev) == Ordered(Sorted(SetToSeq(DOMAIN d)), rev)

\* _uniq_itr
RECURSIVE UniqFrom(_, _)
UniqFrom(itr, seen) ==
  IF itr = <<>> THEN <<>>
  ELSE IF Head(itr) \in seen THEN UniqFrom(Tail(itr), seen)
  ELSE <<Head(itr)>> \o UniqFrom(Tail(itr), seen \cup {Head(itr)})

_uniq_itr(itr) == UniqFrom(itr, {})

_is_prefix_of(prefix_text, haystack) ==
  \E i \in DOMAIN haystack : StartsWith(haystack[i], prefix_text)

Get(d, k, default) == IF k \in DOMAIN d THEN d[k] ELSE default

EmptyDict == [x \in {} |-> <<>>]

AllButLast(s) == SubSeq(s, 1, Len(s) - 1)

\* ------------------------------------------------------------ source tree
\* conf.base
conf_base == <<"myproj">>

P(components) == Join([i \in DOMAIN components |-> <<components[i]>>], "/")
M(segments) == Join([i \in DOMAIN segments |-> <<segments[i]>>], ".")

SrcRootInit == P(<<"taskflow", "__init__">>)
SrcTask == P(<<"taskflow", "task">>)
SrcTas == P(<<"taskflow", "tas">>)
SrcStorage == P(<<"taskflow", "storage">>)
SrcUtilsInit == P(<<"taskflow", "utils", "__init__">>)
SrcMisc == P(<<"taskflow", "utils", "misc">>)
SrcOpenstackInit == P(<<"taskflow", "openstack", "__init__">>)
SrcCommonInit == P(<<"taskflow", "openstack", "common", "__init__">>)
SrcUuidutils == P(<<"taskflow", "openstack", "common", "uuidutils">>)
SrcCompatInit == P(<<"taskflow", "openstack", "common", "compat", "__init__">>)
SrcEnginesInit == P(<<"taskflow", "engines", "__init__">>)
SrcEnginesBase == P(<<"taskflow", "engines", "base">>)
SrcHelpers == P(<<"taskflow", "engines", "helpers">>)
SrcActionInit == P(<<"taskflow", "engines", "action", "__init__">>)
SrcActionEngine == P(<<"taskflow", "engines", "action", "engine">>)
SrcPatternsInit == P(<<"taskflow", "patterns", "__init__">>)
SrcLinear == P(<<"taskflow", "patterns", "linear">>)
SrcPersistenceInit == P(<<"taskflow", "persistence", "__init__">>)
SrcLogbook == P(<<"taskflow", "persistence", "logbook">>)
SrcBackendsInit == P(<<"taskflow", "persistence", "backends", "__init__">>)
SrcMemory == P(<<"taskflow", "persistence", "backends", "memory">>)

\* os.walk(BASE_MOD) is top-down; the order inside a directory is the order
\* of os.listdir, which is not fixed: the model takes one of two orders
WalkFwd ==
  <<SrcRootInit, SrcStorage, SrcTas, SrcTask,
    SrcEnginesInit, SrcEnginesBase, SrcHelpers, SrcActionInit, SrcActionEngine,
    SrcOpenstackInit, SrcCommonInit, SrcUuidutils, SrcCompatInit,
    SrcPatternsInit, SrcLinear,
    SrcPersistenceInit, SrcLogbook, SrcBackendsInit, SrcMemory,
    SrcUtilsInit, SrcMisc>>
WalkRev ==
  <<SrcTask, SrcTas, SrcStorage, SrcRootInit, SrcMisc, SrcUtilsInit,
    SrcLogbook, SrcPersistenceInit, SrcMemory, SrcBackendsInit,
    SrcLinear, SrcPatternsInit,
    SrcOpenstackInit, SrcUuidutils, SrcCommonInit, SrcCompatInit,
    SrcHelpers, SrcEnginesBase, SrcEnginesInit, SrcActionEngine, SrcActionInit>>

RECURSIVE Present(_, _)
Present(order, files) ==
  IF order = <<>> THEN <<>>
  ELSE IF Head(order) \in files THEN <<Head(order)>> \o Present(Tail(order), files)
  ELSE Present(Tail(order), files)

Walk(src, rev) == Present(IF rev THEN WalkRev ELSE WalkFwd, DOMAIN src)

\* import lines the source files are written with
LineUtilsMisc == <<"from", " ", "taskflow", ".", "utils", " ", "import", " ", "misc">>
LineCommonUuid ==
  <<"from", " ", "taskflow", ".", "openstack", ".", "common", " ", "import", " ",
    "uuidutils">>
LineCommonCompat ==
  <<"from", " ", "taskflow", ".", "openstack", ".", "common", " ", "import", " ",
    "compat">>
LineUuidX ==
  <<"from", " ", "taskflow", ".", "openstack", ".", "common", ".", "uuidutils", " ",
    "import", " ", "x">>
LineTask ==
  <<"from", " ", "taskflow", " ", "import", " ", "task", " ", "as", " ", "t",
    " ", " ", "#", " ", "keep">>
LineStorage == <<"from", " ", "taskflow", " ", "import", " ", "storage">>
LineMissing == <<"from", " ", "taskflow", ".", "nothere", " ", "import", " ", "x">>
LineTopdir == <<"join(", "possible_topdir, \"", "taskflow", "\",">>
LineOther == <<"import", " ", "os">>

\* a source tree: path -> lines of the file
SourceTree(taskLines, storageLines, miscLines, hasTas) ==
  (IF hasTas THEN (SrcTas :> <<LineOther>>) ELSE EmptyDict)
  @@ (IF storageLines # <<>> THEN (SrcStorage :> storageLines) ELSE EmptyDict)
  @@ (SrcRootInit :> <<>>) @@ (SrcTask :> taskLines)
  @@ (SrcUtilsInit :> <<>>) @@ (SrcMisc :> miscLines)
  @@ (SrcOpenstackInit :> <<>>) @@ (SrcCommonInit :> <<>>)
  @@ (SrcUuidutils :> <<LineOther>>) @@ (SrcCompatInit :> <<>>)

\* ------------------------------------------------- module path resolution
\* _get_mod_path(segments, base): files is the set of source files
_get_mod_path(segments, base, files) ==
  IF segments = <<>> THEN [exists |-> FALSE, path |-> <<>>]
  ELSE [exists |-> _mod_to_path(_join_mod(<<base>> \o segments)) \in files,
        path |-> _mod_to_path(_join_mod(<<base>> \o segments))]

\* the while loop of _find_import_modules: pop segments until a file matches
RECURSIVE PopSegments(_, _)
PopSegments(import_segments, files) ==
  IF import_segments = <<>> THEN <<>>
  ELSE IF _get_mod_path(import_segments, BASE_MOD, files).exists THEN import_segments
  ELSE PopSegments(AllButLast(import_segments), files)

\* lines 457-462
ResolvePopped(import_segments, prefix_segments) ==
  IF import_segments = <<>> \/ Len(import_segments) < Len(prefix_segments)
  THEN [ok |-> FALSE]
  ELSE [ok |-> TRUE, mod |-> _join_mod(import_segments)]

\* lines 445-457
ResolveNamed(importing, prefix, root_names, files) ==
  IF importing \in root_names THEN [ok |-> TRUE, mod |-> importing]
  ELSE ResolvePopped(PopSegments(_split_mod(importing), files), _split_mod(prefix))

\* the body of the loop of _find_import_modules for one recognized line
ResolveImport(segments, root_names, files) ==
  ResolveNamed(_join_mod(<<segments.prefix, segments.postfix>>), segments.prefix,
               root_names, files)

\* what the generator yields from one resolved line on
YieldImport(r, rest) ==
  IF ~r.ok \/ ~rest.ok THEN [ok |-> FALSE]
  ELSE [ok |-> TRUE, mods |-> <<r.mod>> \o rest.mods]

\* lines 440-462 for one line; rest is what the later lines yield
FindInLine(segments, rest, root_names, files) ==
  IF segments.kind = "error" THEN [ok |-> FALSE]
  ELSE IF segments.kind = "none" THEN rest
  ELSE YieldImport(ResolveImport(segments, root_names, files), rest)

\* _find_import_modules(srcfile, root_mods): the modules it yields, in order,
\* unless it raises
RECURSIVE _find_import_modules(_, _, _)
_find_import_modules(lines, root_names, files) ==
  IF lines = <<>> THEN [ok |-> TRUE, mods |-> <<>>]
  ELSE FindInLine(_parse_import_line(Head(lines)),
                  _find_import_modules(Tail(lines), root_names, files),
                  root_names, files)

\* ------------------------------------------------ _build_dependency_tree
\* lines 478-482
IndexInit(filepath, filename, mod_name, segments, root_mods) ==
  IF (mod_name[Len(mod_name)] = "__init__" \/ filename = <<"__init__">>) /\ segments # <<>>
  THEN [mod_name |-> _join_mod(segments),
        root_mods |-> (_join_mod(segments) :> filepath) @@ root_mods]
  ELSE [mod_name |-> mod_name, root_mods |-> root_mods]

IndexNamed(filepath, filename, mod_name, root_mods) ==
  IndexInit(filepath, filename, mod_name, AllButLast(_split_mod(mod_name)), root_mods)

\* lines 471-477: comps is the path split at the separators
IndexSplit(filepath, comps, root_mods) ==
  IF Join(AllButLast(comps), "/") = BASE_MOD
  THEN IndexNamed(filepath, comps[Len(comps)], comps[Len(comps)],
                  (comps[Len(comps)] :> (BASE_MOD \o <<"/", "__init__">>)) @@ root_mods)
  ELSE IndexNamed(filepath, comps[Len(comps)],
                  _join_mod(Tail(AllButLast(comps)) \o <<comps[Len(comps)]>>), root_mods)

\* the name and the root_mods entries of one walked file (lines 471-482)
IndexFile(filepath, root_mods) == IndexSplit(filepath, Split(filepath, "/"), root_mods)

\* the first loop (lines 469-485) over the walked files
RECURSIVE IndexFiles(_, _, _)
IndexNext(walk, r, file_paths) ==
  IndexFiles(Tail(walk), r.root_mods,
             IF r.mod_name # <<>> THEN Append(file_paths, <<Head(walk), r.mod_name>>)
             ELSE file_paths)

IndexFiles(walk, root_mods, file_paths) ==
  IF walk = <<>> THEN [root_mods |-> root_mods, file_paths |-> file_paths]
  ELSE IndexNext(walk, IndexFile(Head(walk), root_mods), file_paths)

\* [x for x in ... if x != mod_name and x not in dep_list]
RECURSIVE SelectNew(_, _, _)
SelectNew(s, mod_name, dep_list) ==
  IF s = <<>> THEN <<>>
  ELSE IF Head(s) # mod_name /\ Head(s) \notin Range(dep_list)
       THEN <<Head(s)>> \o SelectNew(Tail(s), mod_name, dep_list)
       ELSE SelectNew(Tail(s), mod_name, dep_list)

\* the second loop (lines 489-492)
RECURSIVE ScanFiles(_, _, _, _)
ScanNext(file_paths, src, root_mods, dep_tree, mod_name, dep_list, found) ==
  IF ~found.ok THEN [ok |-> FALSE]
  ELSE ScanFiles(Tail(file_paths), src, root_mods,
                 (mod_name :> (dep_list \o SelectNew(found.mods, mod_name, dep_list)))
                 @@ dep_tree)

ScanFiles(file_paths, src, root_mods, dep_tree) ==
  IF file_paths = <<>> THEN [ok |-> TRUE, dep_tree |-> dep_tree]
  ELSE ScanNext(file_paths, src, root_mods, dep_tree, Head(file_paths)[2],
                Get(dep_tree, Head(file_paths)[2], <<>>),
                _find_import_modules(src[Head(file_paths)[1]], DOMAIN root_mods,
                                     DOMAIN src))

BuildScanned(idx, scan) ==
  IF ~scan.ok THEN [ok |-> FALSE]
  ELSE [ok |-> TRUE, dep_tree |-> scan.dep_tree, root_mods |-> idx.root_mods]

BuildIndexed(src, idx) ==
  BuildScanned(idx, ScanFiles(idx.file_paths, src, idx.root_mods, EmptyDict))

_build_dependency_tree(src, rev) ==
  BuildIndexed(src, IndexFiles(Walk(src, rev), EmptyDict, <<>>))

\* --------------------------------------------------- _dfs_dependency_tree
RECURSIVE _dfs_dependency_tree(_, _, _)
RECURSIVE DfsLoop(_, _, _)
_dfs_dependency_tree(dep_tree, mod_name, mod_list) ==
  DfsLoop(dep_tree, Get(dep_tree, mod_name, <<>>), Append(mod_list, mod_name))

\* the for loop of _dfs_dependency_tree
DfsLoop(dep_tree, mods, mod_list) ==
  IF mods = <<>> THEN mod_list
  ELSE DfsLoop(dep_tree, Tail(mods),
               IF Head(mods) \notin Range(mod_list)
               THEN _dfs_dependency_tree(dep_tree, Head(mods), mod_list)
               ELSE mod_list)

\* -------------------------------------------------- _complete_module_list
\* lines 575-577 for one walk
RECURSIVE AddWalk(_, _, _)
AddWalkKeepBase(walk, mod_list, base) ==
  IF walk = <<>> THEN mod_list
  ELSE AddWalk(Tail(walk),
               IF Head(walk) \notin Range(mod_list)
               THEN Append(mod_list, Head(walk)) ELSE mod_list,
               base)

AddWalk(walk, mod_list, base) ==
  IF walk = <<>> THEN mod_list
  ELSE AddWalk(Tail(walk),
               IF Head(walk) \notin Range(mod_list) /\ Head(walk) \notin Range(base)
               THEN Append(mod_list, Head(walk)) ELSE mod_list,
               base)

\* lines 574-577
RECURSIVE WalkAll(_, _, _, _)
WalkAll(todo, base, dep_tree, mod_list) ==
  IF todo = <<>> THEN mod_list
  ELSE WalkAll(Tail(todo), base, dep_tree,
               AddWalk(_dfs_dependency_tree(dep_tree, Head(todo), <<>>), mod_list, base))

\* lines 582-584
RECURSIVE AddRoots(_, _, _)
AddRoots(roots, base, mod_list) ==
  IF roots = <<>> THEN mod_list
  ELSE AddRoots(Tail(roots), base,
                IF _is_prefix_of(Head(roots), base) /\ Head(roots) \notin Range(mod_list)
                THEN Append(mod_list, Head(roots)) ELSE mod_list)

_complete_module_list_noextend(base, dep_tree, root_mods, rev) ==
  AddRoots(Keys(root_mods, rev), base, WalkAll(base, base, dep_tree, <<>>))

_complete_module_list(base, dep_tree, root_mods, rev) ==
  AddRoots(Keys(root_mods, rev), base, WalkAll(base, base, dep_tree, <<>>) \o base)

\* ------------------------------------------------- destination file tree
\* The destination is [files, dirs, written, removed, copies]: the content (a
\* list of lines) of every file and the directories under dest_dir, paths
\* relative to dest_dir, the files written and removed since the run began,
\* and how many times _copy_file has copied onto each path since the run
\* began.  dest_dir is an absolute path of an existing directory (lines
\* 623-630).

Under(path, dir) == IsPrefixSeq(dir \o <<"/">>, path)

\* _drop_init(path)
_drop_init(fs, path) ==
  [fs EXCEPT !.files = (path :> MACHINE_GENERATED) @@ fs.files,
             !.written = fs.written \cup {path}]

ExplodeComps(comps) == [k \in 1..Len(comps) |-> Join(SubSeq(comps, 1, k), "/")]

\* _explode_path(dir_name), below dest_dir, sorted: parents first
_explode_path(dir_name) == ExplodeComps(Split(dir_name, "/"))

\* os.mkdir(d)
MakeDir(fs, d) == [fs EXCEPT !.dirs = fs.dirs \cup {d}]

\* lines 258-261
DropInitIfMissing(made, init_path) ==
  IF init_path \notin DOMAIN made.files /\ init_path \notin made.dirs
  THEN _drop_init(made, init_path) ELSE made

\* the loop of lines 255-261
RECURSIVE MakeEach(_, _)
MakeEach(fs, dirs_needed) ==
  IF dirs_needed = <<>> THEN fs
  ELSE MakeEach(DropInitIfMissing(MakeDir(fs, Head(dirs_needed)),
                                  Head(dirs_needed) \o <<"/", "__init__">>),
                Tail(dirs_needed))

\* the loop of lines 250-252
RECURSIVE NotDirs(_, _)
NotDirs(ds, dirs) ==
  IF ds = <<>> THEN <<>>
  ELSE IF Head(ds) \notin dirs THEN <<Head(ds)>> \o NotDirs(Tail(ds), dirs)
  ELSE NotDirs(Tail(ds), dirs)

\* _make_dirs(path)
_make_dirs(fs, path) ==
  MakeEach(fs, NotDirs(_explode_path(Join(AllButLast(Split(path, "/")), "/")), fs.dirs))

\* _dest_path(path, base, dest_dir), relative to dest_dir
_dest_path(path, base) == _mod_to_path(base) \o <<"/">> \o path

PrependLine(line, rest) == [ok |-> rest.ok, lines |-> <<line>> \o rest.lines]

\* _copy_file._import_replace on the lines of the copy: the lines written,
\* and whether every line parsed
RECURSIVE ReplaceLines(_, _, _)
ReplaceNext(r, new_lines, base, common_already) ==
  IF r.kind = "error" THEN [ok |-> FALSE, lines |-> <<>>]
  ELSE PrependLine(r.line, ReplaceLines(Tail(new_lines), base, common_already))

ReplaceLines(new_lines, base, common_already) ==
  IF new_lines = <<>> THEN [ok |-> TRUE, lines |-> <<>>]
  ELSE ReplaceNext(RewriteLine(Head(new_lines), base, common_already),
                   new_lines, base, common_already)

_import_replace(lines, base, common_already) ==
  ReplaceLines(MACHINE_GENERATED \o lines, base, common_already)

\* re.sub('possible_topdir, "taskflow",$', 'possible_topdir, "' + base + '",', line)
TopdirSub(line, base) ==
  IF Len(line) >= 3
     /\ SubSeq(line, Len(line) - 2, Len(line))
        = <<"possible_topdir, \"">> \o BASE_MOD \o <<"\",">>
  THEN SubSeq(line, 1, Len(line) - 3) \o <<"possible_topdir, \"">> \o base \o <<"\",">>
  ELSE line

\* re.sub(r"<replace>\s*=.*", "<replace> = '<there_entrypoint>'", line)
EntrypointSubAt(line, replace, there_entrypoint, k) ==
  IF k # 0 /\ LStrip(From(line, k + 1)) # <<>> /\ Head(LStrip(From(line, k + 1))) = "="
  THEN SubSeq(line, 1, k) \o <<" ", "=", " ", "'">> \o there_entrypoint \o <<"'">>
  ELSE line

EntrypointSub(line, replace, there_entrypoint) ==
  EntrypointSubAt(line, replace, there_entrypoint, Find(line, replace))

\* _bulk_replace(path, pattern, replacement) on the lines of the file, for
\* the two patterns it is called with (lines 330-332 and 749-752)
_bulk_replace(lines, pattern, replace, replacement) ==
  [i \in DOMAIN lines |->
     IF pattern = "topdir" THEN TopdirSub(lines[i], replacement)
     ELSE EntrypointSub(lines[i], replace, replacement)]

\* lines 328-332: r is what _import_replace wrote before it returned or raised
CopyFixed(made, dest, base, r) ==
  [ok |-> r.ok,
   fs |-> [made EXCEPT
             !.files = (dest :> (IF r.ok THEN _bulk_replace(r.lines, "topdir", "", base)
                                 ELSE r.lines)) @@ made.files,
             !.written = made.written \cup {dest},
             !.copies = (dest :> (Get(made.copies, dest, 0) + 1)) @@ made.copies]]

\* _copy_file._copy_it, then the fix-up; shutil.copy2 raises when the source
\* file does not exist
CopyIt(made, src, path, dest, base, common_already) ==
  IF path \notin DOMAIN src THEN [ok |-> FALSE, fs |-> made]
  ELSE CopyFixed(made, dest, base, _import_replace(src[path], base, common_already))

_copy_file_always(fs, src, path, dest, base, common_already) ==
  CopyIt(_make_dirs(fs, dest), src, path, dest, base, common_already)

\* _copy_file(path, dest, base, root_mods, common_already)
_copy_file(fs, src, path, dest, base, common_already) ==
  IF dest \notin DOMAIN fs.files /\ dest \notin fs.dirs
  THEN CopyIt(_make_dirs(fs, dest), src, path, dest, base, common_already)
  ELSE [ok |-> TRUE, fs |-> fs]

\* _copy_pyfile(path, base, dest_dir, root_mods, common_already)
_copy_pyfile(fs, src, path, base, common_already) ==
  _copy_file(fs, src, path, _dest_path(path, base), base, common_already)

CopyFound(c2, mod_file) == [ok |-> c2.ok, fs |-> c2.fs, file |-> mod_file]

\* lines 370-378: c1 is the copy of the root module, found is _get_mod_path
CopyModFile(c1, src, mod, base, common_already, root_mods, found) ==
  IF ~c1.ok THEN [ok |-> FALSE, fs |-> c1.fs]
  ELSE IF found.exists
  THEN CopyFound(_copy_pyfile(c1.fs, src, found.path, base, common_already), found.path)
  ELSE IF mod \notin DOMAIN root_mods THEN [ok |-> FALSE, fs |-> c1.fs]
  ELSE [ok |-> TRUE, fs |-> c1.fs, file |-> root_mods[mod]]

\* _copy_mod(mod, base, dest_dir, common_already, root_mods)
_copy_mod(fs, src, mod, base, common_already, root_mods) ==
  CopyModFile(IF mod \in DOMAIN root_mods
              THEN _copy_pyfile(fs, src, root_mods[mod], base, common_already)
              ELSE [ok |-> TRUE, fs |-> fs],
              src, mod, base, common_already, root_mods,
              _get_mod_path(<<mod>>, BASE_MOD, DOMAIN src))

\* _find_existing(mod, base, dest_dir): files are the files below dest_dir
_find_existing(mod, base, files) ==
  [found |-> _mod_to_path(_join_mod(<<base, mod>>)) \in files,
   mod |-> _join_mod(<<base, mod>>)]

\* _rm_tree(base)
_rm_tree(fs, base) ==
  [files |-> [f \in {g \in DOMAIN fs.files : ~Under(g, base)} |-> fs.files[f]],
   dirs |-> {d \in fs.dirs : d # base /\ ~Under(d, base)},
   written |-> fs.written,
   removed |-> fs.removed \cup {g \in DOMAIN fs.files : Under(g, base)},
   copies |-> fs.copies]

clean_old_all(fs, base) ==
  IF _mod_to_path(base) \in fs.dirs THEN _rm_tree(fs, _mod_to_path(base)) ELSE fs

\* main.clean_old
clean_old(fs, base) ==
  IF _mod_to_path(base) \o <<"/">> \o BASE_MOD \in fs.dirs
  THEN _rm_tree(fs, _mod_to_path(base) \o <<"/">> \o BASE_MOD)
  ELSE fs

\* lines 675-682 for one module, rest being the outcome for the later ones
TakeOutOne(mod, rest, base, files) ==
  IF StartsWith(mod, M(<<"openstack", "common">>)) /\ _find_existing(mod, base, files).found
  THEN [mod_list |-> rest.mod_list, common_already |-> rest.common_already \cup {mod}]
  ELSE [mod_list |-> <<mod>> \o rest.mod_list, common_already |-> rest.common_already]

\* lines 671-682 of main.copy_mods: the modules found in the containing
\* project's openstack.common are taken out of the list
RECURSIVE TakeOutCommon(_, _, _)
TakeOutCommon(mods, base, files) ==
  IF mods = <<>> THEN [mod_list |-> <<>>, common_already |-> {}]
  ELSE TakeOutOne(Head(mods), TakeOutCommon(Tail(mods), base, files), base, files)

\* ------------------------------------------------------------- primitives
\* p.split(".", 1), with the ValueError branch of lines 634-638
SplitOnceAt(p, k) ==
  IF k = 0 THEN <<p, <<>> >> ELSE <<SubSeq(p, 1, k - 1), From(p, k + 1)>>

SplitOnce(p) == SplitOnceAt(p, Find(p, "."))

\* lines 643-644
AppendNew(have, p) == IF p \in Range(have) THEN have ELSE Append(have, p)

AddTypeNoSkip(primitive_types, p_type, p) ==
  (p_type :> AppendNew(Get(primitive_types, p_type, <<>>), p)) @@ primitive_types

\* lines 641-644: primitive_types is a defaultdict(list)
AddType(primitive_types, p_type, p) ==
  IF p_type = <<>> THEN primitive_types
  ELSE (p_type :> AppendNew(Get(primitive_types, p_type, <<>>), p)) @@ primitive_types

\* lines 633-644
RECURSIVE CollectTypes(_, _)
CollectPair(prims, primitive_types, pair) ==
  CollectTypes(Tail(prims), AddType(primitive_types, Strip(pair[1]), Strip(pair[2])))

CollectTypes(prims, primitive_types) ==
  IF prims = <<>> THEN primitive_types
  ELSE CollectPair(prims, primitive_types, SplitOnce(Head(prims)))

Allowed(k) == Len(k) = 1 /\ k[1] \in ALLOWED_PRIMITIVES

unknown_prims_none(primitive_types) == {}

\* lines 648-651
unknown_prims(primitive_types) == {k \in DOMAIN primitive_types : ~Allowed(k)}

\* the modules one sub-item t of engines, flow or persistence stands for; the
\* last one is the one whose file must exist
Concrete(kind, t) ==
  IF kind = "engines"
  THEN <<_join_mod(<<M(<<"engines">>), t>>),
         _join_mod(<<M(<<"engines">>), t, M(<<"engine">>)>>)>>
  ELSE IF kind = "flow" THEN <<_join_mod(<<M(<<"patterns">>), t>>)>>
  ELSE <<_join_mod(<<M(<<"persistence">>), M(<<"backends">>), t>>)>>

\* the loops of _complete_flows, _complete_engines and _complete_persistence
RECURSIVE CompleteLoop(_, _, _, _)
CompleteItem(items, mods, kind, files, t, c) ==
  IF t = <<>> \/ t \in Range(mods) THEN CompleteLoop(Tail(items), mods, kind, files)
  ELSE IF ~_get_mod_path(<<c[Len(c)]>>, BASE_MOD, files).exists
  THEN [ok |-> FALSE, mods |-> mods]
  ELSE CompleteLoop(Tail(items), mods \o c, kind, files)

CompleteLoop(items, mods, kind, files) ==
  IF items = <<>> THEN [ok |-> TRUE, mods |-> mods]
  ELSE CompleteItem(items, mods, kind, files, Strip(Head(items)),
                    Concrete(kind, Strip(Head(items))))

_complete_engines(engine_types, files) ==
  IF engine_types = <<>> THEN [ok |-> TRUE, mods |-> <<>>]
  ELSE CompleteLoop(engine_types, <<M(<<"engines">>), M(<<"engines", "base">>)>>,
                    "engines", files)

_complete_flows(patterns, files) ==
  IF patterns = <<>> THEN [ok |-> TRUE, mods |-> <<>>]
  ELSE CompleteLoop(patterns, <<M(<<"patterns">>)>>, "flow", files)

_complete_persistence(backends, files) ==
  IF backends = <<>> THEN [ok |-> TRUE, mods |-> <<>>]
  ELSE CompleteLoop(backends, <<M(<<"persistence">>), M(<<"persistence", "logbook">>)>>,
                    "persistence", files)

Without(d, k) == [x \in DOMAIN d \ {k} |-> d[x]]

\* lines 810-814, flows, engines and persistence being the three expansions
ExpandAll(flows, engines, persistence, keys) ==
  IF ~flows.ok \/ ~engines.ok \/ ~persistence.ok THEN [ok |-> FALSE]
  ELSE [ok |-> TRUE,
        find_what |-> _uniq_itr(flows.mods \o engines.mods \o persistence.mods \o keys)]

ExpandPrimitives(primitive_types, files, rev) ==
  ExpandAll(_complete_flows(Get(primitive_types, M(<<"flow">>), <<>>), files),
            _complete_engines(Get(primitive_types, M(<<"engines">>), <<>>), files),
            _complete_persistence(Get(primitive_types, M(<<"persistence">>), <<>>), files),
            Keys(Without(primitive_types, M(<<"flow">>)), rev))

\* ------------------------------------------------------------ entrypoints
EngineEntrypoint ==
  [target_mod |-> M(<<"engines", "helpers">>), replace |-> "ENGINES_NAMESPACE",
   entrypoint |-> <<"taskflow", ".", "engines">>]

BackendEntrypoint ==
  [target_mod |-> M(<<"persistence", "backends">>), replace |-> "BACKEND_NAMESPACE",
   entrypoint |-> <<"taskflow", ".", "persistence">>]

REQUIRES_ENTRYPOINTS ==
  (M(<<"engines", "helpers">>) :> EngineEntrypoint)
  @@ (M(<<"persistence", "backends">>) :> BackendEntrypoint)
  @@ (M(<<"engines">>) :> EngineEntrypoint)

\* entrypoint_details['replacement'] % conf.base
ThereEntrypoint(d, base) == base \o <<".">> \o d.entrypoint

SetupCfg == <<"setup.cfg">>

\* the files below base_dir, relative to it
BelowBase(files, base) ==
  {From(f, Len(_mod_to_path(base)) + 2) : f \in {g \in files : Under(g, _mod_to_path(base))}}

\* lines 732-739: <<>> when there is no entrypoint target
BaseModPath(target, root_mods, existing) ==
  IF target \in DOMAIN root_mods THEN root_mods[target]
  ELSE IF existing.found THEN _mod_to_path(existing.mod)
  ELSE <<>>

\* lines 756-807: the entry point groups of setup.cfg are written again; the
\* file is modelled as the list of the groups it holds
RECURSIVE ThereEntrypoints(_, _)
ThereEntrypoints(ks, base) ==
  IF ks = <<>> THEN <<>>
  ELSE <<ThereEntrypoint(REQUIRES_ENTRYPOINTS[Head(ks)], base)>>
       \o ThereEntrypoints(Tail(ks), base)

RECURSIVE NotIn(_, _)
NotIn(s, S) ==
  IF s = <<>> THEN <<>>
  ELSE IF Head(s) \notin S THEN <<Head(s)>> \o NotIn(Tail(s), S)
  ELSE NotIn(Tail(s), S)

WriteSetupCfg(fs, there) ==
  [fs EXCEPT !.files = (SetupCfg :> (NotIn(Get(fs.files, SetupCfg, <<>>), Range(there))
                                     \o there)) @@ fs.files,
             !.written = fs.written \cup {SetupCfg}]

\* the loop of lines 726-753
RECURSIVE AdjustEntrypoints(_, _, _, _, _)
AdjustAt(ks, adjusted, fs, root_mods, base, d, dest_path) ==
  IF dest_path \notin DOMAIN fs.files THEN [ok |-> FALSE, fs |-> fs]
  ELSE AdjustEntrypoints(
         Tail(ks), adjusted \cup {d.target_mod},
         [fs EXCEPT !.files = (dest_path :> _bulk_replace(fs.files[dest_path], "entrypoint",
                                                          d.replace, ThereEntrypoint(d, base)))
                              @@ fs.files,
                    !.written = fs.written \cup {dest_path}],
         root_mods, base)

AdjustOne(ks, adjusted, fs, root_mods, base, d, base_mod_path) ==
  IF d.target_mod \in adjusted THEN AdjustEntrypoints(Tail(ks), adjusted, fs, root_mods, base)
  ELSE IF base_mod_path = <<>> THEN [ok |-> FALSE, fs |-> fs]
  ELSE AdjustAt(ks, adjusted, fs, root_mods, base, d,
                _mod_to_path(base) \o <<"/">> \o base_mod_path)

AdjustEntrypoints(ks, adjusted, fs, root_mods, base) ==
  IF ks = <<>>
  THEN [ok |-> TRUE,
        fs |-> IF adjusted = {} THEN fs
               ELSE WriteSetupCfg(fs, ThereEntrypoints(Sorted(SetToSeq(adjusted)), base))]
  ELSE AdjustOne(ks, adjusted, fs, root_mods, base, REQUIRES_ENTRYPOINTS[Head(ks)],
                 BaseModPath(REQUIRES_ENTRYPOINTS[Head(ks)].target_mod, root_mods,
                             _find_existing(REQUIRES_ENTRYPOINTS[Head(ks)].target_mod,
                                            BASE_MOD, BelowBase(DOMAIN fs.files, base))))

\* lines 713-717
NeededEntrypoints(mod_list) ==
  {k \in DOMAIN REQUIRES_ENTRYPOINTS : \E i \in DOMAIN mod_list : StartsWith(mod_list[i], k)}

\* main.create_entrypoints(mod_list, root_mods)
create_entrypoints(fs, mod_list, root_mods, base) ==
  IF NeededEntrypoints(mod_list) = {} THEN [ok |-> TRUE, fs |-> fs]
  ELSE AdjustEntrypoints(Sorted(SetToSeq(NeededEntrypoints(mod_list))), {}, fs,
                         root_mods, base)

\* ================================================================== state
VARIABLES
  src,              \* the source tree: path -> lines of the file
  primitives,       \* conf.primitives
  rev,              \* which of the two orders os.listdir and dict.keys take
  fs,               \* the destination tree
  start_files,      \* the files of the destination when the run began
  src_read,         \* the source files read since the run began
  pc,               \* where main is
  run,              \* 1 for the first invocation, 2 for the second, ...
  primitive_types,  \* main: primitive_types
  find_what,        \* main: find_what
  dep_tree,         \* _complete_module_list: dep_tree
  root_mods,        \* main: root_mods
  complete_list,    \* main: copy_what as _complete_module_list returns it
  copy_what,        \* main: copy_what, sorted
  mod_list,         \* copy_mods: mod_list
  common_already,   \* copy_mods: common_already (its keys)
  copy_i,           \* copy_mods: the position of the loop of lines 698-701
  copied,           \* copy_mods: copied
  ln                \* a line on its way through _import_replace

vars ==
  <<src, primitives, rev, fs, start_files, src_read, pc, run, primitive_types,
    find_what, dep_tree, root_mods, complete_list, copy_what, mod_list,
    common_already, copy_i, copied, ln>>

inputs == <<src, primitives, rev>>
locals ==
  <<primitive_types, find_what, dep_tree, root_mods, complete_list, copy_what,
    mod_list, common_already, copy_i, copied>>

\* -------------------------------------------------------------- requests
RECURSIVE SeqsUpTo(_, _)
SeqsUpTo(S, n) ==
  IF n = 0 THEN {<<>>}
  ELSE SeqsUpTo(S, n - 1) \cup {Append(q, x) : q \in SeqsUpTo(S, n - 1), x \in S}

PrimitiveNames == { M(<<"task">>), M(<<"bogus", "thing">>), <<".", "x">> }

Requests == SeqsUpTo(PrimitiveNames, MaxPrimitives)

\* ---------------------------------------------------------- source trees
TaskContents ==
  { <<LineOther>>, <<LineUtilsMisc>>, <<LineCommonUuid>>, <<LineUuidX>>,
    <<LineUtilsMisc, LineUuidX>>, <<LineCommonCompat>>, <<LineMissing>> }
MiscContents == { <<LineTopdir>>, <<LineTopdir, LineTask>> }

SourceTrees == { SourceTree(t, <<>>, m, FALSE) : t \in TaskContents, m \in MiscContents }

\* ---------------------------------------------------- initial destinations
TheirLines == << <<"#", " ", "theirs">> >>
OldLines == << <<"#", " ", "old">> >>

DestBaseInit == P(<<"myproj", "__init__">>)
DestShared == P(<<"myproj", "openstack", "common", "uuidutils">>)
DestCompat == P(<<"myproj", "openstack", "common", "compat", "__init__">>)
DestOld == P(<<"myproj", "taskflow", "old">>)
DestTask == P(<<"myproj", "taskflow", "task">>)
DestTree == P(<<"myproj", "taskflow">>)

SharedFiles ==
  (DestBaseInit :> TheirLines)
  @@ (P(<<"myproj", "openstack", "__init__">>) :> TheirLines)
  @@ (P(<<"myproj", "openstack", "common", "__init__">>) :> TheirLines)
  @@ (DestShared :> TheirLines) @@ (DestCompat :> TheirLines)
SharedDirs ==
  {P(<<"myproj">>), P(<<"myproj", "openstack">>), P(<<"myproj", "openstack", "common">>),
   P(<<"myproj", "openstack", "common", "compat">>)}

OldFiles ==
  (DestBaseInit :> TheirLines)
  @@ (P(<<"myproj", "taskflow", "__init__">>) :> OldLines)
  @@ (DestTask :> OldLines) @@ (DestOld :> OldLines)
OldDirs == {P(<<"myproj">>), DestTree}

Destination(shared, old) ==
  [files |-> (IF shared THEN SharedFiles ELSE EmptyDict)
             @@ (IF old THEN OldFiles ELSE EmptyDict),
   dirs |-> (IF shared THEN SharedDirs ELSE {}) \cup (IF old THEN OldDirs ELSE {}),
   written |-> {}, removed |-> {}, copies |-> EmptyDict]

Destinations == { Destination(sh, old) : sh \in BOOLEAN, old \in BOOLEAN }

NoLine == [pc |-> "off"]

InitLocals ==
  /\ primitive_types = EmptyDict
  /\ find_what = <<>>
  /\ dep_tree = EmptyDict
  /\ root_mods = EmptyDict
  /\ complete_list = <<>>
  /\ copy_what = <<>>
  /\ mod_list = <<>>
  /\ common_already = {}
  /\ copy_i = 0
  /\ copied = {}

Init ==
  /\ src \in SourceTrees
  /\ primitives \in Requests
  /\ rev \in BOOLEAN
  /\ fs \in Destinations
  /\ start_files = fs.files
  /\ src_read = {}
  /\ pc = "start"
  /\ run = 1
  /\ InitLocals
  /\ ln = NoLine

\* ---------------------------------------------------------------- actions
\* main, lines 631-644
ParsePrimitives ==
  /\ pc = "start"
  /\ primitive_types' = CollectTypes(_uniq_itr(primitives), EmptyDict)
  /\ pc' = "parsed"
  /\ UNCHANGED <<inputs, fs, start_files, src_read, run, find_what, dep_tree, root_mods,
                 complete_list, copy_what, mod_list, common_already, copy_i, copied, ln>>

\* main, lines 648-661: sys.exit(1) on an unknown primitive
CheckAllowed ==
  /\ pc = "parsed"
  /\ pc' = IF unknown_prims(primitive_types) # {} THEN "invalid_request" ELSE "checked"
  /\ UNCHANGED <<inputs, fs, start_files, src_read, run, locals, ln>>

\* main, lines 810-814
Expand ==
  /\ pc = "checked"
  /\ \E r \in {ExpandPrimitives(primitive_types, DOMAIN src, rev)} :
       /\ pc' = IF r.ok THEN "expanded" ELSE "io_error"
       /\ find_what' = IF r.ok THEN r.find_what ELSE find_what
  /\ primitive_types' = Without(primitive_types, M(<<"flow">>))
  /\ UNCHANGED <<inputs, fs, start_files, src_read, run, dep_tree, root_mods,
                 complete_list, copy_what, mod_list, common_already, copy_i, copied, ln>>

\* main, lines 815-816
CompleteModuleList ==
  /\ pc = "expanded"
  /\ src_read' = DOMAIN src
  /\ \E t \in {_build_dependency_tree(src, rev)} :
       IF ~t.ok
       THEN /\ pc' = "io_error"
            /\ UNCHANGED <<dep_tree, root_mods, complete_list, copy_what>>
       ELSE \E l \in {_complete_module_list(find_what, t.dep_tree, t.root_mods, rev)} :
              /\ pc' = "completed"
              /\ dep_tree' = t.dep_tree
              /\ root_mods' = t.root_mods
              /\ complete_list' = l
              /\ copy_what' = Sorted(_uniq_itr(l))
  /\ UNCHANGED <<inputs, fs, start_files, run, primitive_types, find_what, mod_list,
                 common_already, copy_i, copied, ln>>

\* main, lines 821-822: "Nothing to copy."
NothingToCopy ==
  /\ pc = "completed"
  /\ copy_what = <<>>
  /\ pc' = "done"
  /\ UNCHANGED <<inputs, fs, start_files, src_read, run, locals, ln>>

\* main, line 818
CleanOld ==
  /\ pc = "completed"
  /\ copy_what # <<>>
  /\ fs' = clean_old(fs, conf_base)
  /\ pc' = "cleaned"
  /\ UNCHANGED <<inputs, start_files, src_read, run, locals, ln>>

\* main.copy_mods, lines 666-697
TakeOut ==
  /\ pc = "cleaned"
  /\ \E r \in {TakeOutCommon(copy_what, conf_base, DOMAIN fs.files)} :
       /\ mod_list' = r.mod_list
       /\ common_already' = r.common_already
  /\ copy_i' = 1
  /\ copied' = {}
  /\ pc' = "copying"
  /\ UNCHANGED <<inputs, fs, start_files, src_read, run, primitive_types, find_what,
                 dep_tree, root_mods, complete_list, copy_what, ln>>

\* main.copy_mods, one turn of the loop of lines 698-701
CopyMod ==
  /\ pc = "copying"
  /\ copy_i <= Len(mod_list)
  /\ \E r \in {_copy_mod(fs, src, mod_list[copy_i], conf_base, common_already, root_mods)} :
       /\ fs' = r.fs
       /\ pc' = IF r.ok THEN "copying" ELSE "io_error"
       /\ copied' = IF r.ok THEN copied \cup {r.file} ELSE copied
       /\ copy_i' = IF r.ok THEN copy_i + 1 ELSE copy_i
  /\ UNCHANGED <<inputs, start_files, src_read, run, primitive_types, find_what, dep_tree,
                 root_mods, complete_list, copy_what, mod_list, common_already, ln>>

\* main, line 820
CreateEntrypoints ==
  /\ pc = "copying"
  /\ copy_i > Len(mod_list)
  /\ \E r \in {create_entrypoints(fs, copy_what, root_mods, conf_base)} :
       /\ fs' = r.fs
       /\ pc' = IF r.ok THEN "done" ELSE "io_error"
  /\ UNCHANGED <<inputs, start_files, src_read, run, locals, ln>>

\* the script is invoked again, on the same source tree, request and
\* destination
NextRun ==
  /\ pc = "done"
  /\ run < MaxRuns
  /\ run' = run + 1
  /\ pc' = "start"
  /\ fs' = [fs EXCEPT !.written = {}, !.removed = {}, !.copies = EmptyDict]
  /\ start_files' = fs.files
  /\ src_read' = {}
  /\ primitive_types' = EmptyDict
  /\ find_what' = <<>>
  /\ dep_tree' = EmptyDict
  /\ root_mods' = EmptyDict
  /\ complete_list' = <<>>
  /\ copy_what' = <<>>
  /\ mod_list' = <<>>
  /\ common_already' = {}
  /\ copy_i' = 0
  /\ copied' = {}
  /\ UNCHANGED <<inputs, ln>>

Next ==
  \/ ParsePrimitives
  \/ CheckAllowed
  \/ Expand
  \/ CompleteModuleList
  \/ NothingToCopy
  \/ CleanOld
  \/ TakeOut
  \/ CopyMod
  \/ CreateEntrypoints
  \/ NextRun

Spec == Init /\ [][Next]_vars

\* ===================================================================
\* The closure computation on its own: _complete_module_list applied to any
\* duplicate-free list of modules, over source trees whose imports form
\* chains, diamonds and cycles.
ClosureTaskContents ==
  { <<LineOther>>, <<LineUtilsMisc>>, <<LineStorage>>, <<LineStorage, LineUtilsMisc>>,
    <<LineUtilsMisc, LineUtilsMisc>> }
ClosureStorageContents == { <<LineOther>>, <<LineTask>>, <<LineUtilsMisc>> }
ClosureMiscContents ==
  { <<LineTopdir>>, <<LineTopdir, LineTask>>, <<LineTopdir, LineStorage>> }

ClosureTrees ==
  { SourceTree(t, s, m, h) : t \in ClosureTaskContents, s \in ClosureStorageContents,
                             m \in ClosureMiscContents, h \in BOOLEAN }

ClosureMods == { M(<<"task">>), M(<<"storage">>), M(<<"utils", "misc">>) }

NoDuplicates(q) == \A i, j \in DOMAIN q : q[i] = q[j] => i = j

ClosureBases == { q \in SeqsUpTo(ClosureMods, MaxPrimitives) : NoDuplicates(q) }

ClosureInit ==
  /\ src \in ClosureTrees
  /\ primitives = <<>>
  /\ rev \in BOOLEAN
  /\ fs = Destination(FALSE, FALSE)
  /\ start_files = fs.files
  /\ src_read = {}
  /\ pc = "expanded"
  /\ run = 1
  /\ primitive_types = EmptyDict
  /\ find_what \in ClosureBases
  /\ dep_tree = EmptyDict
  /\ root_mods = EmptyDict
  /\ complete_list = <<>>
  /\ copy_what = <<>>
  /\ mod_list = <<>>
  /\ common_already = {}
  /\ copy_i = 0
  /\ copied = {}
  /\ ln = NoLine

ClosureNext == CompleteModuleList

ClosureSpec == ClosureInit /\ [][ClosureNext]_vars

\* the modules reachable from S along the edges of tree, S included: the
\* least set closed under the edges
Grow(S, tree) == S \cup UNION { Range(Get(tree, m, <<>>)) : m \in S }

RECURSIVE ReachFrom(_, _)
ReachStep(S, T, tree) == IF T = S THEN S ELSE ReachFrom(T, tree)
ReachFrom(S, tree) == ReachStep(S, Grow(S, tree), tree)

Reach == ReachFrom(Range(find_what), dep_tree)

\* the package roots the add-back step of lines 582-584 takes: those a
\* module of the base starts with, character by character
AddedBack ==
  { m \in DOMAIN root_mods :
      \E b \in Range(find_what) : IsPrefixSeq(Spell(m), Spell(b)) }

\* C1: the closure result is exactly the primitives, the modules reachable
\* from a primitive along dependency edges and the package roots of the
\* add-back step; no other module is in it, a primitive without edges is in
\* it, and the walk from one primitive yields what is reachable from that
\* primitive whatever was walked before.
C1_ClosureExact ==
  pc = "completed" =>
    /\ Range(complete_list) = Reach \cup AddedBack
    /\ Range(find_what) \subseteq Range(complete_list)
    /\ \A p \in Range(find_what) :
         Range(_dfs_dependency_tree(dep_tree, p, <<>>)) = ReachFrom({p}, dep_tree)

\* two primitives on a cycle task <-> utils.misc, a primitive without edges
\* aside, and a module of the tree that stays out of the result
C1_Witness ==
  /\ pc = "completed"
  /\ Len(find_what) = 2
  /\ M(<<"utils", "misc">>) \in Range(Get(dep_tree, M(<<"task">>), <<>>))
  /\ M(<<"task">>) \in Range(Get(dep_tree, M(<<"utils", "misc">>), <<>>))
  /\ \E p \in Range(find_what) : Get(dep_tree, p, <<>>) = <<>>
  /\ \E m \in DOMAIN dep_tree : m \notin Range(complete_list)

\* C2: no module is twice in the list _complete_module_list returns, nor in
\* the sorted copy list main derives from it.
C2_NoDuplicates ==
  pc = "completed" => NoDuplicates(complete_list) /\ NoDuplicates(copy_what)

\* two primitives, the second reachable from the first, and a dependency
\* both reach
C2_Witness ==
  /\ pc = "completed"
  /\ Len(find_what) = 2
  /\ find_what[2] \in ReachFrom({find_what[1]}, dep_tree)
  /\ \E m \in Reach \ Range(find_what) :
       \A p \in Range(find_what) : m \in ReachFrom({p}, dep_tree)

\* prefix is a prefix of mod by dotted segments
DottedPrefix(prefix, mod) == IsPrefixSeq(_split_mod(prefix), _split_mod(mod))

\* C3: every package root that is a dotted prefix of a selected module (a
\* primitive or a dependency the walk found) is in the result, and what the
\* add-back step adds is a dotted-segment prefix of a selected module.
C3_RootsOfSelected ==
  pc = "completed" =>
    /\ \A m \in DOMAIN root_mods :
         (\E s \in Reach : DottedPrefix(m, s)) => m \in Range(complete_list)
    /\ \A m \in Range(complete_list) \ Reach : \E s \in Reach : DottedPrefix(m, s)

\* C12: no module is twice in the dependency list of an indexed module, also
\* when the file of the module imports the same module on several lines.
C12_NoRepeatedEdge ==
  pc = "completed" => \A m \in DOMAIN dep_tree : NoDuplicates(dep_tree[m])

\* ===================================================================
\* Properties of the whole run (Spec)

SharedPath(mod) == _mod_to_path(conf_base) \o <<"/">> \o _mod_to_path(mod)
TreePath(mod) == DestTree \o <<"/">> \o _mod_to_path(mod)

\* the files of the destination but setup.cfg
Contents(files) == [f \in DOMAIN files \ {SetupCfg} |-> files[f]]

IsRewritten(line) ==
  /\ Len(line) > 3
  /\ SubSeq(line, 1, 2) = <<"from", " ">>
  /\ IsPrefixSeq(conf_base, From(line, 3))
TargetOf(line) == Split(From(line, 3), " ")[1]

\* mod is a module file or a package of the destination
ModuleAt(path, files) == path \in files \/ path \o <<"/", "__init__">> \in files
ModuleIn(mod, files) == ModuleAt(_mod_to_path(mod), files)

\* C5: after a run that completes, every rewritten import line of every file
\* written in the run names a module that exists in the destination, in the
\* copied tree or in the consumer's openstack.common.
C5_NoBrokenReference ==
  pc = "done" =>
    \A f \in fs.written \cap DOMAIN fs.files :
      \A i \in DOMAIN fs.files[f] :
        IsRewritten(fs.files[f][i]) =>
          ModuleIn(TargetOf(fs.files[f][i]), DOMAIN fs.files)

\* mod is in the consumer's openstack.common when the run begins, as a module
\* file or as a package
InShared(mod) ==
  /\ IsPrefixSeq(<<"openstack", ".", "common", ".">>, mod)
  /\ ModuleAt(SharedPath(mod), DOMAIN start_files)

\* C7: a module of the copy list that exists in the consumer's
\* openstack.common is taken out of the list of modules to copy, no file is
\* written for it below <base>/taskflow, and the consumer's file stays as it
\* is.
C7_SharedNotDuplicated ==
  \A i \in DOMAIN copy_what :
    InShared(copy_what[i]) =>
      /\ pc \in {"copying", "done"} => copy_what[i] \notin Range(mod_list)
      /\ \A f \in fs.written : f # TreePath(copy_what[i]) /\ ~Under(f, TreePath(copy_what[i]))
      /\ \A f \in DOMAIN start_files :
           (f = SharedPath(copy_what[i]) \/ Under(f, SharedPath(copy_what[i])))
             => f \in DOMAIN fs.files /\ fs.files[f] = start_files[f]

\* the category of a primitive: the text before its first ".", stripped
RECURSIVE BeforeDot(_)
BeforeDot(p) ==
  IF p = <<>> \/ Head(p) = "." THEN <<>> ELSE <<Head(p)>> \o BeforeDot(Tail(p))
CategoryOf(p) == Strip(BeforeDot(p))

NotAllowed(p) == CategoryOf(p) # <<>> /\ \A a \in ALLOWED_PRIMITIVES : CategoryOf(p) # <<a>>
EmptyCategory(p) == CategoryOf(p) = <<>>

Untouched == fs.written = {} /\ fs.removed = {} /\ fs.files = start_files

\* C9: a request with a primitive whose category is named and not in the
\* allow-list goes from parsing to the rejection and nowhere else: no source
\* file is indexed or read, no destination file is removed or written.
C9_UnknownRejected ==
  (\E i \in DOMAIN primitives : NotAllowed(primitives[i])) =>
    /\ pc \in {"start", "parsed", "invalid_request"}
    /\ src_read = {}
    /\ Untouched

\* the request is rejected although another primitive of it is allowed
C9_Witness ==
  /\ pc = "invalid_request"
  /\ \E i \in DOMAIN primitives : NotAllowed(primitives[i])
  /\ \E i \in DOMAIN primitives : CategoryOf(primitives[i]) = <<"task">>

\* C10 as the specification states it: an empty primitive list, or a primitive
\* with an empty category, never ends the run normally.
C10_EmptyAborts ==
  (primitives = <<>> \/ \E i \in DOMAIN primitives : EmptyCategory(primitives[i]))
    => pc # "done"

\* C10: a primitive with an empty category is left out of the request, and a
\* request of which nothing is left is not rejected: it indexes the source
\* tree, finds nothing to copy and leaves the destination as it is; only a
\* named category outside the allow-list is rejected.
C10_EmptySkipped ==
  /\ <<>> \notin DOMAIN primitive_types
  /\ (\A i \in DOMAIN primitives : EmptyCategory(primitives[i])) =>
       /\ pc \notin {"invalid_request", "cleaned", "copying"}
       /\ Untouched
       /\ pc \in {"completed", "done"} => copy_what = <<>>
  /\ pc = "invalid_request" => \E i \in DOMAIN primitives : NotAllowed(primitives[i])

\* a request of one primitive, whose category is empty, ended normally
C10_Witness ==
  /\ pc = "done"
  /\ primitives # <<>>
  /\ \A i \in DOMAIN primitives : EmptyCategory(primitives[i])

\* ===================================================================
\* One line on its way through the loop of _copy_file._import_replace
\* (lines 313-323): the line is parsed, then reformed and written.

LineLeads == { <<>>, <<" ">> }
LinePrefixes ==
  { <<>>, M(<<"utils">>), M(<<"openstack", "common">>),
    M(<<"openstack", "common", "uuidutils">>),
    M(<<"openstack", "common", "importutils">>) }
LinePostfixes == { <<"x">>, <<"uuidutils">> }
LineAliases == { <<>>, <<"m">> }
LineComments == SeqsUpTo({" ", "keep"}, MaxComment)
FlaggedSets == { {}, {M(<<"openstack", "common", "uuidutils">>)} }

\* the text of an import line of the source library
LineText(lead, prefix, postfix, alias, hasHash, comment) ==
  lead \o <<"from", " ">> \o BASE_MOD
  \o (IF prefix # <<>> THEN <<".">> \o prefix ELSE <<>>)
  \o <<" ", "import", " ">> \o postfix
  \o (IF alias # <<>> THEN <<" ", "as", " ">> \o alias ELSE <<>>)
  \o (IF hasHash THEN <<" ", " ", "#">> \o comment ELSE <<>>)

ImportLines ==
  { [pc |-> "read", recognized |-> TRUE,
     line |-> LineText(lead, prefix, postfix, alias, hasHash, comment),
     prefix |-> prefix, postfix |-> postfix, alias |-> alias, hasHash |-> hasHash,
     comment |-> comment, flagged |-> flagged, segments |-> NoMatch, out |-> <<>>] :
      lead \in LineLeads, prefix \in LinePrefixes, postfix \in LinePostfixes,
      alias \in LineAliases, hasHash \in {TRUE}, comment \in LineComments,
      flagged \in FlaggedSets }
  \cup
  { [pc |-> "read", recognized |-> TRUE,
     line |-> LineText(lead, prefix, postfix, alias, FALSE, <<>>),
     prefix |-> prefix, postfix |-> postfix, alias |-> alias, hasHash |-> FALSE,
     comment |-> <<>>, flagged |-> flagged, segments |-> NoMatch, out |-> <<>>] :
      lead \in LineLeads, prefix \in LinePrefixes, postfix \in LinePostfixes,
      alias \in LineAliases, flagged \in FlaggedSets }

OtherLines ==
  { [pc |-> "read", recognized |-> FALSE, line |-> l,
     prefix |-> <<>>, postfix |-> <<>>, alias |-> <<>>, hasHash |-> FALSE,
     comment |-> <<>>, flagged |-> flagged, segments |-> NoMatch, out |-> <<>>] :
      l \in {LineOther, LineTopdir}, flagged \in FlaggedSets }

LineInit ==
  /\ src = SourceTree(<<LineOther>>, <<>>, <<LineTopdir>>, FALSE)
  /\ primitives = <<>>
  /\ rev = FALSE
  /\ fs = Destination(FALSE, FALSE)
  /\ start_files = fs.files
  /\ src_read = {}
  /\ pc = "line"
  /\ run = 1
  /\ InitLocals
  /\ ln \in ImportLines \cup OtherLines

\* line 314: segments = _parse_import_line(line, i + 1, path)
ParseLine ==
  /\ ln.pc = "read"
  /\ \E s \in {_parse_import_line(ln.line)} :
       ln' = [ln EXCEPT !.pc = IF s.kind = "error" THEN "invalid" ELSE "parsed",
                        !.segments = s]
  /\ UNCHANGED <<inputs, fs, start_files, src_read, pc, run, locals>>

\* lines 315-323: the line is reformed when it parsed, and written
WriteLine ==
  /\ ln.pc = "parsed"
  /\ \E r \in {RewriteParsed(ln.line, ln.segments, conf_base, ln.flagged)} :
       ln' = [ln EXCEPT !.pc = "written", !.out = r.line]
  /\ UNCHANGED <<inputs, fs, start_files, src_read, pc, run, locals>>

LineNext == ParseLine \/ WriteLine

LineSpec == LineInit /\ [][LineNext]_vars

LineDone == pc = "line" /\ ln.pc \in {"written", "invalid"} /\ ln.recognized

\* the line refers to a flagged module: the module it imports from, or the
\* module it imports
RefersToFlagged ==
  ln.prefix \in ln.flagged \/ _join_mod(<<ln.prefix, ln.postfix>>) \in ln.flagged

\* C6: an import of a flagged module is rewritten to an import from
\* <base>.openstack.common followed by the segments of the prefix beyond the
\* first two, without the source root: with openstack.common.uuidutils
\* flagged, "from taskflow.openstack.common.uuidutils import x" becomes
\* "from myproj.openstack.common.uuidutils import x".
C6_FlaggedTarget ==
  (LineDone /\ RefersToFlagged) =>
    /\ ln.pc = "written"
    /\ TargetOf(ln.out)
         = _join_mod(<<conf_base, <<"openstack">>, <<"common">> >>
                     \o From(_split_mod(ln.prefix), 3))

\* what C8 expects of the line: the new module, the postfix, then the alias
\* and the comment of the original where it had them
ExpectedLine ==
  <<"from", " ">> \o conf_base \o <<".">> \o BASE_MOD
  \o (IF ln.prefix # <<>> THEN <<".">> \o ln.prefix ELSE <<>>)
  \o <<" ", "import", " ">> \o ln.postfix
  \o (IF ln.alias # <<>> THEN <<" ", "as", " ">> \o ln.alias ELSE <<>>)
  \o (IF ln.hasHash THEN <<" ", " ", "#">> \o ln.comment ELSE <<>>)

\* C8: a recognized import line that refers to no flagged module is parsed
\* and reformed to "from <base>.<root>.<prefix> import <postfix>", with
\* " as <alias>" and "#<comment>" exactly when the original had them, alias
\* and comment as in the original.
C8_RoundTrip ==
  (LineDone /\ ~RefersToFlagged) => ln.pc = "written" /\ ln.out = ExpectedLine

\* ===================================================================
\* Runs that request sub-items of flow, engines and persistence, over source
\* trees that hold the modules of the expansion or miss some of them.
LineEnginesHelpers == <<"from", " ", "taskflow", ".", "engines", " ", "import", " ", "helpers">>
LineEnginesBase == <<"from", " ", "taskflow", ".", "engines", " ", "import", " ", "base">>
LineEnginesNamespace == <<"ENGINES_NAMESPACE", " ", "=", " ", "'taskflow.engines'">>
LineBackendNamespace == <<"BACKEND_NAMESPACE", " ", "=", " ", "'taskflow.persistence'">>

\* the tree: which of engines/action/__init__.py, engines/action/engine.py,
\* patterns/linear.py and persistence/backends/memory.py it holds
ExpandTree(actionInit, actionEngine, linear, memory) ==
  (IF actionInit THEN (SrcActionInit :> <<>>) ELSE EmptyDict)
  @@ (IF actionEngine THEN (SrcActionEngine :> <<LineEnginesBase>>) ELSE EmptyDict)
  @@ (IF linear THEN (SrcLinear :> <<LineOther>>) ELSE EmptyDict)
  @@ (IF memory THEN (SrcMemory :> <<LineOther>>) ELSE EmptyDict)
  @@ (SrcEnginesInit :> <<LineEnginesHelpers>>) @@ (SrcEnginesBase :> <<LineOther>>)
  @@ (SrcHelpers :> <<LineEnginesNamespace>>)
  @@ (SrcPatternsInit :> <<>>)
  @@ (SrcPersistenceInit :> <<>>) @@ (SrcLogbook :> <<LineOther>>)
  @@ (SrcBackendsInit :> <<LineBackendNamespace>>)
  @@ SourceTree(<<LineOther>>, <<LineOther>>, <<LineTopdir>>, FALSE)

ExpandTrees ==
  { ExpandTree(TRUE, TRUE, l, m) : l \in BOOLEAN, m \in BOOLEAN }
  \cup { ExpandTree(FALSE, TRUE, TRUE, TRUE), ExpandTree(TRUE, FALSE, TRUE, TRUE) }

ExpandNames ==
  { M(<<"flow", "linear">>), M(<<"engines", "action">>), M(<<"engines", "engines">>),
    M(<<"persistence", "memory">>), M(<<"task">>), M(<<"storage">>) }

ExpandRequests == SeqsUpTo(ExpandNames, MaxPrimitives)

ExpandInit ==
  /\ src \in ExpandTrees
  /\ primitives \in ExpandRequests
  /\ rev \in BOOLEAN
  /\ fs = Destination(FALSE, TRUE)
  /\ start_files = fs.files
  /\ src_read = {}
  /\ pc = "start"
  /\ run = 1
  /\ InitLocals
  /\ ln = NoLine

ExpandNext ==
  \/ ParsePrimitives
  \/ CheckAllowed
  \/ Expand
  \/ CompleteModuleList
  \/ NothingToCopy
  \/ CleanOld
  \/ TakeOut
  \/ CopyMod
  \/ CreateEntrypoints

ExpandSpec == ExpandInit /\ [][ExpandNext]_vars

\* the sub-item of a primitive: the text after its first ".", stripped
SubItemOf(p) == IF Find(p, ".") = 0 THEN <<>> ELSE Strip(From(p, Find(p, ".") + 1))

\* the (category, sub-item) pairs the request names for flow, engines and
\* persistence
RequestedItems ==
  { <<CategoryOf(primitives[i]), SubItemOf(primitives[i])>> :
      i \in { j \in DOMAIN primitives :
                /\ CategoryOf(primitives[j]) \in {<<"flow">>, <<"engines">>, <<"persistence">>}
                /\ SubItemOf(primitives[j]) # <<>> } }

\* the concrete modules of a sub-item
ConcreteMods(kind, t) ==
  IF kind = <<"flow">> THEN { <<"patterns", ".">> \o t }
  ELSE IF kind = <<"engines">>
  THEN { <<"engines", ".">> \o t, <<"engines", ".">> \o t \o <<".", "engine">> }
  ELSE { <<"persistence", ".", "backends", ".">> \o t }

\* the modules a category always brings
SharedMods(kind) ==
  IF kind = <<"flow">> THEN { <<"patterns">> }
  ELSE IF kind = <<"engines">> THEN { <<"engines">>, <<"engines", ".", "base">> }
  ELSE { <<"persistence">>, <<"persistence", ".", "logbook">> }

\* mod has a source file: a module file or a package initializer
HasSource(mod) == ModuleAt(_mod_to_path(BASE_MOD \o <<".">> \o mod), DOMAIN src)

MissingConcrete ==
  \E it \in RequestedItems : \E m \in ConcreteMods(it[1], it[2]) : ~HasSource(m)

\* C11: a requested sub-item of flow, engines or persistence expands to the
\* shared modules of its category and its concrete modules, and when a
\* concrete module has no source file the run fails before the dependency
\* graph is built and before anything is removed or copied.
C11_Expansion ==
  /\ pc \in {"expanded", "completed", "cleaned", "copying", "done"} =>
       \A it \in RequestedItems :
         SharedMods(it[1]) \cup ConcreteMods(it[1], it[2]) \subseteq Range(find_what)
  /\ MissingConcrete =>
       /\ pc \in {"start", "parsed", "checked", "io_error"}
       /\ dep_tree = EmptyDict
       /\ src_read = {}
       /\ Untouched

\* the copy list main computes when the primitive-category map is iterated
\* in the order r1, the directory walk enumerates in the order r2 and the
\* root-module map is iterated in the order r3
CopyListBuilt(expanded, tree, r3) ==
  IF ~expanded.ok \/ ~tree.ok THEN [ok |-> FALSE]
  ELSE [ok |-> TRUE,
        list |-> Sorted(_uniq_itr(_complete_module_list(expanded.find_what, tree.dep_tree,
                                                        tree.root_mods, r3)))]

\* the copy lists of every order of the two maps, for one order of the walk
CopyListsFor(tree) ==
  { CopyListBuilt(ExpandPrimitives(CollectTypes(_uniq_itr(primitives), EmptyDict),
                                   DOMAIN src, r1), tree, r3) : r1, r3 \in BOOLEAN }

\* C13: the copy list of a run is the one every other order of the directory
\* walk, of the root-module map and of the primitive-category map gives for
\* the same source tree and request.
C13_OrderIndependent ==
  pc = "completed" =>
    \A r2 \in BOOLEAN :
      CopyListsFor(_build_dependency_tree(src, r2)) = {[ok |-> TRUE, list |-> copy_what]}

\* find_what as the other order of the primitive-category map gives it
OtherFindWhat ==
  ExpandPrimitives(CollectTypes(_uniq_itr(primitives), EmptyDict), DOMAIN src, ~rev).find_what

\* the orders matter before the sort: the expansion and the closure list come
\* out in another order under the other iteration order
C13_Witness ==
  /\ pc = "completed"
  /\ Len(copy_what) >= 2
  /\ OtherFindWhat # find_what
  /\ _complete_module_list(OtherFindWhat, dep_tree, root_mods, ~rev) # complete_list

\* the lines begin with the marker block, and with one only
OneMarkerBlock(lines) ==
  /\ Len(lines) >= Len(MACHINE_GENERATED)
  /\ SubSeq(lines, 1, Len(MACHINE_GENERATED)) = MACHINE_GENERATED
  /\ ~ /\ Len(lines) >= 2 * Len(MACHINE_GENERATED)
       /\ SubSeq(lines, Len(MACHINE_GENERATED) + 1, 2 * Len(MACHINE_GENERATED))
            = MACHINE_GENERATED

\* C16: within one run no destination file is copied and rewritten more than
\* once, and every copied file begins with exactly one marker block.
C16_CopiedOnce ==
  \A dest \in DOMAIN fs.copies :
    /\ fs.copies[dest] = 1
    /\ dest \in DOMAIN fs.files
    /\ OneMarkerBlock(fs.files[dest])

\* two top-level modules, both mapped to the root package initializer, have
\* been copied, and the initializer has been copied
C16_Witness ==
  /\ pc = "copying"
  /\ \E i, j \in 1..(copy_i - 1) :
       /\ i < j
       /\ mod_list[i] \in DOMAIN root_mods
       /\ mod_list[j] \in DOMAIN root_mods
       /\ root_mods[mod_list[i]] = SrcRootInit
       /\ root_mods[mod_list[j]] = SrcRootInit
  /\ _dest_path(SrcRootInit, conf_base) \in DOMAIN fs.copies

\* ===================================================================
\* One import line on its way through the loop body of _find_import_modules
\* (lines 440-462), the while loop of lines 450-455 one iteration at a time.

ResolveNames == { "utils", "misc", "openstack", "common", "task", "nothere" }
ResolvePostfixes == { "misc", "common", "uuidutils", "x" }

\* pop(): the list without its last element
pop_nothing(import_segments) == import_segments

pop(import_segments) == AllButLast(import_segments)

ResolveLines ==
  { [pc |-> "read", path |-> Append(q, postfix),
     line |-> LineText(<<>>, M(q), <<postfix>>, <<>>, FALSE, <<>>),
     importing |-> <<>>, prefix |-> <<>>, import_segments |-> <<>>, probes |-> 0,
     mod |-> <<>>] :
      q \in SeqsUpTo(ResolveNames, MaxSegments), postfix \in ResolvePostfixes }
  \cup
  { [pc |-> "read", path |-> <<>>, line |-> LineOther,
     importing |-> <<>>, prefix |-> <<>>, import_segments |-> <<>>, probes |-> 0,
     mod |-> <<>>] }

ResolveInit ==
  /\ src \in { SourceTree(<<LineOther>>, <<>>, <<LineTopdir>>, hasTas) : hasTas \in BOOLEAN }
  /\ primitives = <<>>
  /\ rev \in BOOLEAN
  /\ fs = Destination(FALSE, FALSE)
  /\ start_files = fs.files
  /\ src_read = {}
  /\ pc = "resolve"
  /\ run = 1
  /\ primitive_types = EmptyDict
  /\ find_what = <<>>
  /\ dep_tree = EmptyDict
  /\ root_mods = IndexFiles(Walk(src, rev), EmptyDict, <<>>).root_mods
  /\ complete_list = <<>>
  /\ copy_what = <<>>
  /\ mod_list = <<>>
  /\ common_already = {}
  /\ copy_i = 0
  /\ copied = {}
  /\ ln \in ResolveLines

\* lines 441-449
ResolveParsed(segments, importing) ==
  IF segments.kind = "none" THEN [ln EXCEPT !.pc = "skipped"]
  ELSE IF segments.kind = "error" THEN [ln EXCEPT !.pc = "io_error"]
  ELSE IF importing \in DOMAIN root_mods
  THEN [ln EXCEPT !.pc = "yielded", !.importing = importing, !.prefix = segments.prefix,
                  !.mod = importing]
  ELSE [ln EXCEPT !.pc = "popping", !.importing = importing, !.prefix = segments.prefix,
                  !.import_segments = _split_mod(importing)]

ResolveJoined(segments) ==
  ResolveParsed(segments,
                IF segments.kind = "ok"
                THEN _join_mod(<<segments.prefix, segments.postfix>>) ELSE <<>>)

ResolveParse ==
  /\ pc = "resolve"
  /\ ln.pc = "read"
  /\ ln' = ResolveJoined(_parse_import_line(ln.line))
  /\ UNCHANGED <<inputs, fs, start_files, src_read, pc, run, locals>>

\* lines 450-455: one iteration of the while loop; probes counts the
\* iterations made
ResolveProbe ==
  /\ pc = "resolve"
  /\ ln.pc = "popping"
  /\ ln.import_segments # <<>>
  /\ ln' = IF _get_mod_path(ln.import_segments, BASE_MOD, DOMAIN src).exists
           THEN [ln EXCEPT !.pc = "found", !.probes = @ + 1]
           ELSE [ln EXCEPT !.import_segments = pop(ln.import_segments), !.probes = @ + 1]
  /\ UNCHANGED <<inputs, fs, start_files, src_read, pc, run, locals>>

\* lines 456-462, after the loop
ResolveFinish ==
  /\ pc = "resolve"
  /\ ln.pc = "found" \/ (ln.pc = "popping" /\ ln.import_segments = <<>>)
  /\ \E r \in {ResolvePopped(ln.import_segments, _split_mod(ln.prefix))} :
       ln' = IF r.ok THEN [ln EXCEPT !.pc = "yielded", !.mod = r.mod]
             ELSE [ln EXCEPT !.pc = "io_error"]
  /\ UNCHANGED <<inputs, fs, start_files, src_read, pc, run, locals>>

ResolveNext == ResolveParse \/ ResolveProbe \/ ResolveFinish

ResolveSpec == ResolveInit /\ [][ResolveNext]_vars

ResolveDone == ln.pc \in {"skipped", "yielded", "io_error"}

\* the dotted path of the line matches no source file at any shortened
\* length: no leading part of it is a module file or a package
MatchesNothing ==
  /\ ln.path # <<>>
  /\ \A k \in 1..Len(ln.path) : ~HasSource(M(SubSeq(ln.path, 1, k)))

\* what _find_import_modules gives for the line
ResolvedAs(r) ==
  IF ln.path = <<>> THEN ln.pc = "skipped"
  ELSE IF r.ok THEN ln.pc = "yielded" /\ r.mods = <<ln.mod>>
  ELSE ln.pc = "io_error" /\ ln.mod = <<>>

\* the loop taken one iteration at a time gives what _find_import_modules
\* gives for the line
ResolveAgrees ==
  ResolveDone =>
    ResolvedAs(_find_import_modules(<<ln.line>>, DOMAIN root_mods, DOMAIN src))

\* C14: the prefix-shortening loop terminates for every dotted path, after
\* at most one iteration for each segment, and a path that matches no source
\* file at any shortened length ends in the error, with no module yielded.
C14_PopTerminates ==
  /\ ln.probes <= Len(ln.path)
  /\ ResolveDone /\ MatchesNothing =>
       ln.pc = "io_error" /\ ln.mod = <<>> /\ ln.probes = Len(ln.path)

\* a path of three segments none of whose leading parts is a source file has
\* been shortened to nothing and ended in the error
C14_Witness ==
  /\ ln.pc = "io_error"
  /\ Len(ln.path) = MaxSegments + 1
  /\ MatchesNothing
  /\ ln.import_segments = <<>>


\* the line is `from <root>.<pkg> import <name>`: <pkg> is a directory with a
\* package initializer and <name> is no module of the package
ImportsFromPackage ==
  /\ Len(ln.path) >= 2
  /\ P(<<"taskflow">> \o AllButLast(ln.path) \o <<"__init__">>) \in DOMAIN src
  /\ ~HasSource(M(ln.path))

\* C15: an import of a name from a package resolves to the package, which is
\* yielded as the module the file depends on.
C15_PackageResolves ==
  ResolveDone /\ ImportsFromPackage =>
    ln.pc = "yielded" /\ ln.mod = M(AllButLast(ln.path))
====
